---- MODULE Spec2Model ----
(***************************************************************************)
(* NodeNetwork (src/network/node_network.rs): the overlay cache, the       *)
(* single-flight get_overlay / get_overlay_worker bootstrap, peer          *)
(* discovery, the peer-refresh loop, the self-announcement loops, the DHT  *)
(* crawl loop and get_peers_from_storage.                                  *)
(*                                                                         *)
(* A get_overlay call is a task c; the handle (Arc<NodeClientOverlay>)     *)
(* built by the get_overlay_worker that task c runs is named c, and so is  *)
(* the peer-refresh loop spawned for that handle.  A task takes a step at  *)
(* each .await and at each access to the lock-free overlay cache; the      *)
(* synchronous code between two awaits is part of one step.                *)
(***************************************************************************)
EXTENDS Integers, Sequences, FiniteSets, TLC

\* ---- bounds of the model
NumCallers == 2          \* concurrent get_overlay calls
MaxRounds == 1           \* discovery rounds the refresh loops make when the DHT answers freely
MaxK == 4                \* largest k of the discovery mock
MAX_NEIGHBOURS == 3      \* neighbours::MAX_NEIGHBOURS, scaled down
MaxStores == 3           \* store calls a self-announcement loop is followed for
MaxPasses == 2           \* passes the DHT crawl loop is followed for
MaxKnown == 3            \* most peers get_known_peer enumerates
MaxItems == 2            \* longest persisted peer list

\* ---- constants of the source
PERIOD_STORE_IP_ADDRESS == 500
PERIOD_START_FIND_DHT_NODE == 60

Callers == 1..NumCallers
Ids == {"A", "B"}
NoHandle == 0
MaxPeer == NumCallers * (MAX_NEIGHBOURS + 1) * MaxK
Peers == 1..MaxPeer

\* What DhtNode::find_overlay_nodes may answer when it is not the mock: the
\* identities of the (address, identity) pairs, a pair possibly repeated.
DhtAnswers == {<<>>, <<1, 1>>, <<2, 1>>}

VARIABLES
    overlays,     \* self.overlays: id -> resident handle or NoHandle
    inflight,     \* self.overlay_awaiters: id -> the task running the operation
    pc,           \* each get_overlay task's position
    overlay_id,   \* each get_overlay call's argument
    joined,       \* a waiting task: the task whose operation it awaits
    ret,          \* the handle a task's worker / call resolved to
    prevGen,      \* insert_with: the closure has generated a value before
    snap,         \* insert_with: the map as read when the closure ran
    known,        \* OverlayNode: id -> identities registered as public peers
    neighbours,   \* handle -> its Neighbours set
    rpc,          \* handle -> position of its peer-refresh loop
    rounds,       \* handle -> discovery rounds its refresh loop has made
    mockK,        \* 0: the DHT answers freely; k > 0: k new peers per call
    served,       \* mock: id -> peers handed out so far
    runs,         \* history: id -> get_overlay_worker executions started
    annLoops,     \* history: id -> periodic_store_overlay_node loops started
    errs,         \* history: ids whose bootstrap has failed
    intro,        \* history: <<id, peer>> add_public_peer has reported new
    introTwice,   \* history: <<id, peer>> reported new more than once
    given,        \* history: <<handle, peer>> given to the neighbour set
    givenTwice,   \* history: <<handle, peer>> given more than once
    resided,      \* history: handles that have been resident in the cache
    nones,        \* history: tasks do_or_wait has handed None
    shards,       \* OverlayNode: the overlay ids joined by add_shard
    iter,         \* handle -> the discovery cursor of its peer-refresh loop
    passed,       \* history: handle -> the cursor its latest round handed to the DHT
    ovLoop,       \* task -> the periodic_store_overlay_node loop its worker spawned
    now,          \* the clock, in seconds
    ipLoop,       \* key -> the periodic_store_ip_addr loop of the key
    crawl,        \* the find_dht_nodes loop
    db,           \* InternalDb: id -> what load_node_state answers
    loaded        \* id -> what get_peers_from_storage returned

vars == <<overlays, inflight, pc, overlay_id, joined, ret, prevGen, snap, known,
          neighbours, rpc, rounds, mockK, served, runs, annLoops, errs,
          intro, introTwice, given, givenTwice, resided, nones, shards,
          iter, passed, ovLoop, now, ipLoop, crawl, db, loaded>>

hist == <<runs, annLoops, errs, intro, introTwice, given, givenTwice, resided, nones>>
peerHist == <<intro, introTwice, given, givenTwice>>

\* let mut iter = None: a cursor that has not been handed to the DHT yet.
None == 0

\* A background loop that has not been spawned, and one just spawned: it is
\* about to make its first call.
NotSpawned == [pos |-> "off", wake |-> 0, calls |-> 0, okSeen |-> FALSE]
Spawned == [pos |-> "call", wake |-> 0, calls |-> 0, okSeen |-> FALSE]

\* adnl.key_by_tag(TAG_DHT_KEY), adnl.key_by_tag(TAG_OVERLAY_KEY)
Keys == {"TAG_DHT_KEY", "TAG_OVERLAY_KEY"}

\* The find_dht_nodes loop as spawned, get_known_peer enumerating n peers.
CrawlSpawned(n) ==
    [pos |-> "enum", iter |-> None, n |-> n, calls |-> 0, failures |-> 0,
     passes |-> 0, wake |-> 0]

\* What db.load_node_state answers: Err, or bytes that are not a JSON list of
\* strings, or a JSON list of strings, each a peer config or not.
Items == {"{1}", "{2}", "x"}
LoadErr == [kind |-> "load_err", items |-> <<>>]
NotJson == [kind |-> "not_json", items |-> <<>>]
JsonList(items) == [kind |-> "list", items |-> items]
ItemLists == UNION {[1..n -> Items] : n \in 0..MaxItems}
Stored == {LoadErr, NotJson} \cup {JsonList(l) : l \in ItemLists}

\* get_peers_from_storage has not been called.
NotCalled == [tag |-> "not_called", peers |-> <<>>]

\* ---- helpers
Last(s) == s[Len(s)]
Front(s) == SubSeq(s, 1, Len(s) - 1)
Range(s) == {s[i] : i \in 1..Len(s)}
Twice(s) == {s[i] : i \in {j \in 1..Len(s) : \E l \in 1..(j - 1) : s[l] = s[j]}}
Prefix(s, n) == SubSeq(s, 1, n)

\* neighbours::Neighbours: a set of identities that holds at most MAX_NEIGHBOURS.
NeighboursAdd(S, p) == IF Cardinality(S) >= MAX_NEIGHBOURS THEN S ELSE S \cup {p}

\* Neighbours::new(&peers, ..): the set seeded with the peers, in order.
RECURSIVE NeighboursNew(_)
NeighboursNew(s) ==
    IF s = <<>> THEN {} ELSE NeighboursAdd(NeighboursNew(Front(s)), Last(s))

\* update_peers: while let Some(peer) = peers.pop() { peers().add(peer)? }
RECURSIVE PopAll(_, _)
PopAll(S, s) == IF s = <<>> THEN S ELSE PopAll(NeighboursAdd(S, Last(s)), Front(s))

\* OverlayNode::add_public_peer(ip, node, overlay_id) with K the identities
\* known to the overlay: Some(peer) when the identity is new, None otherwise.
AddPublicPeerIsNew(K, p) == p \notin K

\* update_overlay_peers pushing every pair's peer, new or not.
update_overlay_peers_all(K, found) == found

\* update_overlay_peers, its for loop over the pairs found: ret collects the
\* peers add_public_peer returned Some for.
RECURSIVE update_overlay_peers(_, _)
update_overlay_peers(K, found) ==
    IF found = <<>> THEN <<>>
    ELSE LET before == update_overlay_peers(K, Front(found))
             p == Last(found)
         IN  IF AddPublicPeerIsNew(K \cup Range(Front(found)), p)
             THEN Append(before, p) ELSE before

\* The closure with its first two tests in the other order.
PreviewKeepFirst(prev_gen_val, updated_pair) ==
    IF prev_gen_val THEN "Keep"
    ELSE IF updated_pair # NoHandle THEN "Discard"
    ELSE "New"

\* The closure without its test of the stored entry.
PreviewNoDiscard(prev_gen_val, updated_pair) ==
    IF prev_gen_val THEN "Keep" ELSE "New"

\* The closure always offering the candidate.
PreviewAlwaysNew(prev_gen_val, updated_pair) == "New"

\* The closure with its first test inverted.
PreviewInverted(prev_gen_val, updated_pair) ==
    IF updated_pair = NoHandle THEN "Discard"
    ELSE IF prev_gen_val THEN "Keep"
    ELSE "New"

\* The closure handed to overlays.insert_with: (prev_gen_val, updated_pair).
Preview(prev_gen_val, updated_pair) ==
    IF updated_pair # NoHandle THEN "Discard"
    ELSE IF prev_gen_val THEN "Keep"
    ELSE "New"

\* lockfree::map::Insertion for a preview that was installed over `found`.
Insertion(found) == IF found = NoHandle THEN "Created" ELSE "Updated"

\* The Insertion::Failed arm answering the discarded candidate.
FailedArmCandidate(c, resident) == c

\* try_add_new_overlay's answer in the Insertion::Failed arm.
FailedArm(c, resident) == resident

\* The quota test with > for >=.
QuotaExceeded(S) == Cardinality(S) > MAX_NEIGHBOURS

\* The neighbour count test that ends a round of the peer-refresh loop.
QuotaReached(S) == Cardinality(S) >= MAX_NEIGHBOURS

EndRound(S) == IF QuotaReached(S) THEN "done" ELSE "sleep"

\* The loop testing the quota before its first round.
LoopStartTested(S) == IF QuotaReached(S) THEN "done" ELSE "find"

\* The loop not spawned by the bootstrap.
LoopStartNever(S) == "off"

\* start_update_peers spawns the loop on a neighbour set S: its body starts
\* with a discovery round.
LoopStart(S) == "find"

\* DhtNode::find_overlay_nodes: the mock's answer for id, k peers never handed
\* out before.
MockAnswer(id) == [i \in 1..mockK |-> served[id] + i]

FindOverlayNodes(id, ans) ==
    IF mockK = 0
    THEN /\ ans \in DhtAnswers
         /\ UNCHANGED served
    ELSE /\ served[id] + mockK <= MaxPeer
         /\ ans = MockAnswer(id)
         /\ served' = [served EXCEPT ![id] = @ + mockK]

\* The history of add_public_peer's Some answers for overlay id.
Introduce(id, news) ==
    /\ intro' = intro \cup {<<id, p>> : p \in Range(news)}
    /\ introTwice' = introTwice \cup
          {<<id, p>> : p \in {q \in Range(news) : <<id, q>> \in intro} \cup Twice(news)}

\* The history of the peers given to handle h's neighbour set.
Give(h, ps) ==
    /\ given' = given \cup {<<h, p>> : p \in Range(ps)}
    /\ givenTwice' = givenTwice \cup
          {<<h, p>> : p \in {q \in Range(ps) : <<h, q>> \in given} \cup Twice(ps)}

\* ---- initial states
InitCommon ==
    /\ overlays = [i \in Ids |-> NoHandle]
    /\ inflight = [i \in Ids |-> 0]
    /\ joined = [c \in Callers |-> 0]
    /\ ret = [c \in Callers |-> NoHandle]
    /\ prevGen = [c \in Callers |-> FALSE]
    /\ snap = [c \in Callers |-> [i \in Ids |-> NoHandle]]
    /\ known = [i \in Ids |-> {}]
    /\ neighbours = [c \in Callers |-> {}]
    /\ rounds = [c \in Callers |-> 0]
    /\ served = [i \in Ids |-> 0]
    /\ runs = [i \in Ids |-> 0]
    /\ annLoops = [i \in Ids |-> 0]
    /\ errs = {}
    /\ shards = {}
    /\ iter = [c \in Callers |-> None]
    /\ passed = [c \in Callers |-> None]
    /\ ovLoop = [c \in Callers |-> NotSpawned]
    /\ now = 0
    /\ ipLoop = [k \in Keys |-> Spawned]
    /\ loaded = [i \in Ids |-> NotCalled]
    /\ intro = {}
    /\ introTwice = {}
    /\ given = {}
    /\ givenTwice = {}
    /\ resided = {}
    /\ nones = {}

\* NodeNetwork::new has returned and every get_overlay call has been issued,
\* the first one for overlay "A".
Init ==
    /\ InitCommon
    /\ overlay_id \in {f \in [Callers -> Ids] : \A c \in Callers : c < NumCallers => f[c] = "A"}
    /\ pc = [c \in Callers |-> "lookup"]
    /\ rpc = [c \in Callers |-> "off"]
    /\ mockK = 0
    /\ crawl = CrawlSpawned(0)
    /\ db = [i \in Ids |-> LoadErr]

\* ---- get_overlay
\* A lookup that never finds the entry.
CacheMiss(c) == FALSE

\* if let Some(overlay) = self.overlays.get(&overlay_id.0)
CacheHit(c) == overlays[overlay_id[c]] # NoHandle

\* self.overlays.get(&overlay_id.0): a hit returns the resident handle.
cache_lookup(c) ==
    /\ pc[c] = "lookup"
    /\ IF CacheHit(c)
       THEN /\ pc' = [pc EXCEPT ![c] = "returned"]
            /\ ret' = [ret EXCEPT ![c] = overlays[overlay_id[c]]]
       ELSE /\ pc' = [pc EXCEPT ![c] = "do_or_wait"]
            /\ UNCHANGED ret
    /\ UNCHANGED <<overlays, inflight, overlay_id, joined, prevGen, snap, known,
                   neighbours, rpc, rounds, mockK, served, hist>>
    /\ UNCHANGED <<shards, iter, passed, ovLoop, now, ipLoop, crawl, db, loaded>>

\* One key for every overlay.
AwaiterKeyShared(c) == "A"

\* The key get_overlay hands to do_or_wait: &overlay_id.0.
AwaiterKey(c) == overlay_id[c]

\* overlay_awaiters.do_or_wait: run the operation when none is in flight for the
\* id, otherwise await the one in flight.
do_or_wait(c) ==
    /\ pc[c] = "do_or_wait"
    /\ IF inflight[AwaiterKey(c)] = 0
       THEN /\ inflight' = [inflight EXCEPT ![AwaiterKey(c)] = c]
            /\ pc' = [pc EXCEPT ![c] = "add_shard"]
            /\ runs' = [runs EXCEPT ![overlay_id[c]] = @ + 1]
            /\ UNCHANGED joined
       ELSE /\ joined' = [joined EXCEPT ![c] = inflight[AwaiterKey(c)]]
            /\ pc' = [pc EXCEPT ![c] = "wait"]
            /\ UNCHANGED <<inflight, runs>>
    /\ UNCHANGED <<overlays, overlay_id, ret, prevGen, snap, known, neighbours,
                   rpc, rounds, mockK, served, annLoops, errs, peerHist, resided,
                   nones>>
    /\ UNCHANGED <<shards, iter, passed, ovLoop, now, ipLoop, crawl, db, loaded>>

\* The operation a task awaits has ended and the task is handed its result.
wait_result(c) ==
    /\ pc[c] = "wait"
    /\ pc[joined[c]] \in {"returned", "error"}
    /\ pc' = [pc EXCEPT ![c] = pc[joined[c]]]
    /\ ret' = [ret EXCEPT ![c] = IF pc[joined[c]] = "returned" THEN ret[joined[c]] ELSE @]
    /\ UNCHANGED <<overlays, inflight, overlay_id, joined, prevGen, snap, known,
                   neighbours, rpc, rounds, mockK, served, hist>>
    /\ UNCHANGED <<shards, iter, passed, ovLoop, now, ipLoop, crawl, db, loaded>>

\* The operation a task awaits has ended and the task is handed None: it
\* looks the cache up again.
wait_none(c) ==
    /\ pc[c] = "wait"
    /\ pc[joined[c]] \in {"returned", "error"}
    /\ pc' = [pc EXCEPT ![c] = "lookup"]
    /\ nones' = nones \cup {c}
    /\ UNCHANGED <<overlays, inflight, overlay_id, joined, ret, prevGen, snap,
                   known, neighbours, rpc, rounds, mockK, served, runs, annLoops,
                   errs, peerHist, resided>>
    /\ UNCHANGED <<shards, iter, passed, ovLoop, now, ipLoop, crawl, db, loaded>>

\* do_or_wait hands the runner its operation's result and forgets the operation.
operation_done(c) ==
    /\ pc[c] \in {"op_ok", "op_failed"}
    /\ inflight' = [inflight EXCEPT ![AwaiterKey(c)] = IF @ = c THEN 0 ELSE @]
    /\ pc' = [pc EXCEPT ![c] = IF pc[c] = "op_ok" THEN "returned" ELSE "error"]
    /\ UNCHANGED <<overlays, overlay_id, joined, ret, prevGen, snap, known,
                   neighbours, rpc, rounds, mockK, served, hist>>
    /\ UNCHANGED <<shards, iter, passed, ovLoop, now, ipLoop, crawl, db, loaded>>

\* ---- get_overlay_worker
\* A step of get_overlay_worker returns Err: the worker ends with it.
WorkerFails(c, at) ==
    /\ pc[c] = at
    /\ pc' = [pc EXCEPT ![c] = "op_failed"]
    /\ errs' = errs \cup {overlay_id[c]}
    /\ UNCHANGED <<overlays, inflight, overlay_id, joined, ret, prevGen, snap,
                   neighbours, rpc, rounds, mockK, runs, annLoops, given, givenTwice,
                   resided, nones>>
    /\ UNCHANGED <<shards, iter, passed, ovLoop, now, ipLoop, crawl, db, loaded>>

\* self.overlay.add_shard(&overlay_id.0).await?
add_shard(c) ==
    /\ pc[c] = "add_shard"
    /\ pc' = [pc EXCEPT ![c] = "get_signed_node"]
    /\ shards' = shards \cup {overlay_id[c]}
    /\ UNCHANGED <<overlays, inflight, overlay_id, joined, ret, prevGen, snap,
                   known, neighbours, rpc, rounds, mockK, served, hist>>
    /\ UNCHANGED <<iter, passed, ovLoop, now, ipLoop, crawl, db, loaded>>

add_shard_fails(c) ==
    /\ WorkerFails(c, "add_shard")
    /\ UNCHANGED <<known, served, intro, introTwice>>

\* get_signed_node(..)?, then periodic_store_overlay_node spawns the overlay's
\* announcement loop, then update_overlay_peers awaits the DHT.
get_signed_node(c) ==
    /\ pc[c] = "get_signed_node"
    /\ pc' = [pc EXCEPT ![c] = "find_overlay_nodes"]
    /\ annLoops' = [annLoops EXCEPT ![overlay_id[c]] = @ + 1]
    /\ ovLoop' = [ovLoop EXCEPT ![c] = Spawned]
    /\ UNCHANGED <<overlays, inflight, overlay_id, joined, ret, prevGen, snap,
                   known, neighbours, rpc, rounds, mockK, served, runs, errs,
                   peerHist, resided, nones>>
    /\ UNCHANGED <<shards, iter, passed, now, ipLoop, crawl, db, loaded>>

get_signed_node_fails(c) ==
    /\ WorkerFails(c, "get_signed_node")
    /\ UNCHANGED <<known, served, intro, introTwice>>

\* The seed round's DHT query has answered: update_overlay_peers registers the
\* pairs, Neighbours::new is seeded with the new peers, the handle c is built
\* and start_update_peers spawns its peer-refresh loop.
seed_round(c) ==
    LET id == overlay_id[c] IN
    /\ pc[c] = "find_overlay_nodes"
    /\ \E ans \in DhtAnswers \cup {MockAnswer(id)} :
          LET news == update_overlay_peers(known[id], ans) IN
          /\ FindOverlayNodes(id, ans)
          /\ known' = [known EXCEPT ![id] = @ \cup Range(ans)]
          /\ Introduce(id, news)
          /\ neighbours' = [neighbours EXCEPT ![c] = NeighboursNew(news)]
          /\ Give(c, news)
    /\ rpc' = [rpc EXCEPT ![c] = LoopStart(neighbours'[c])]
    /\ pc' = [pc EXCEPT ![c] = "insert_with"]
    /\ UNCHANGED <<overlays, inflight, overlay_id, joined, ret, prevGen, snap,
                   rounds, mockK, runs, annLoops, errs, resided, nones>>
    /\ UNCHANGED <<shards, iter, passed, ovLoop, now, ipLoop, crawl, db, loaded>>

\* DhtNode::find_overlay_nodes(..).await? returns Err in the seed round.
seed_find_overlay_nodes_fails(c) ==
    /\ WorkerFails(c, "find_overlay_nodes")
    /\ UNCHANGED <<known, served, intro, introTwice>>

\* add_public_peer(..)? returns Err on the j-th pair of the seed round.
seed_add_public_peer_fails(c) ==
    LET id == overlay_id[c] IN
    /\ WorkerFails(c, "find_overlay_nodes")
    /\ \E ans \in DhtAnswers : \E j \in 1..Len(ans) :
          /\ FindOverlayNodes(id, ans)
          /\ known' = [known EXCEPT ![id] = @ \cup Range(Prefix(ans, j - 1))]
          /\ Introduce(id, update_overlay_peers(known[id], Prefix(ans, j - 1)))

\* Neighbours::new(..)? returns Err.
neighbours_new_fails(c) ==
    LET id == overlay_id[c] IN
    /\ WorkerFails(c, "find_overlay_nodes")
    /\ \E ans \in DhtAnswers :
          /\ FindOverlayNodes(id, ans)
          /\ known' = [known EXCEPT ![id] = @ \cup Range(ans)]
          /\ Introduce(id, update_overlay_peers(known[id], ans))

\* ---- try_add_new_overlay
\* insert_with reads the map and runs the closure on what it found.
insert_with(c) ==
    /\ pc[c] = "insert_with"
    /\ snap' = [snap EXCEPT ![c] = overlays]
    /\ pc' = [pc EXCEPT ![c] =
                IF Preview(prevGen[c], overlays[overlay_id[c]]) = "Discard"
                THEN "insertion_failed" ELSE "cas"]
    /\ UNCHANGED <<overlays, inflight, overlay_id, joined, ret, prevGen, known,
                   neighbours, rpc, rounds, mockK, served, hist>>
    /\ UNCHANGED <<shards, iter, passed, ovLoop, now, ipLoop, crawl, db, loaded>>

\* insert_with installs the previewed value if the map is as it was read; the
\* closure is recalled when the entry of the key has changed, and may be when
\* another entry has. Insertion::Created returns the candidate.
insert_with_cas(c) ==
    LET id == overlay_id[c] IN
    /\ pc[c] = "cas"
    /\ \/ /\ overlays[id] = snap[c][id]
          /\ overlays' = [overlays EXCEPT ![id] = c]
          /\ resided' = resided \cup {c}
          /\ IF Insertion(snap[c][id]) = "Created"
             THEN /\ ret' = [ret EXCEPT ![c] = c]
                  /\ pc' = [pc EXCEPT ![c] = "op_ok"]
             ELSE /\ pc' = [pc EXCEPT ![c] = "unreachable"]
                  /\ UNCHANGED ret
          /\ UNCHANGED prevGen
       \/ /\ overlays # snap[c]
          /\ prevGen' = [prevGen EXCEPT ![c] = TRUE]
          /\ pc' = [pc EXCEPT ![c] = "insert_with"]
          /\ UNCHANGED <<overlays, ret, resided>>
    /\ UNCHANGED <<inflight, overlay_id, joined, snap, known, neighbours, rpc,
                   rounds, mockK, served, runs, annLoops, errs, peerHist, nones>>
    /\ UNCHANGED <<shards, iter, passed, ovLoop, now, ipLoop, crawl, db, loaded>>

\* Insertion::Failed: self.overlays.get(overlay_id).unwrap().val().clone()
insertion_failed(c) ==
    /\ pc[c] = "insertion_failed"
    /\ IF overlays[overlay_id[c]] # NoHandle
       THEN /\ ret' = [ret EXCEPT ![c] = FailedArm(c, overlays[overlay_id[c]])]
            /\ pc' = [pc EXCEPT ![c] = "op_ok"]
       ELSE /\ pc' = [pc EXCEPT ![c] = "unwrap_none"]
            /\ UNCHANGED ret
    /\ UNCHANGED <<overlays, inflight, overlay_id, joined, prevGen, snap, known,
                   neighbours, rpc, rounds, mockK, served, hist>>
    /\ UNCHANGED <<shards, iter, passed, ovLoop, now, ipLoop, crawl, db, loaded>>

\* ---- start_update_peers: the peer-refresh loop of handle h
\* Discovery rounds made by all refresh loops so far.
RECURSIVE RoundsUpTo(_)
RoundsUpTo(n) == IF n = 0 THEN 0 ELSE rounds[n] + RoundsUpTo(n - 1)
TotalRounds == RoundsUpTo(NumCallers)

\* The rounds the refresh loops are followed for when the DHT answers freely:
\* MaxRounds while a get_overlay call is running, one more once all have ended.
RoundBudget ==
    IF \A c \in Callers : pc[c] \in {"returned", "error"}
    THEN MaxRounds + 1 ELSE MaxRounds

\* A round handing the DHT a new cursor.
CursorFresh(h) == None

\* A round hands the DHT the cursor start_update_peers declared before its
\* loop: &mut iter.
CursorForRound(h) == iter[h]

\* DhtNode::find_overlay_nodes moves the cursor it is handed forward.
Advance(cur) == cur + 1

\* The loop's quota test after a round.
RoundEnds(h) == rpc' = [rpc EXCEPT ![h] = EndRound(neighbours'[h])]

\* A round's DHT query has answered: update_peers registers the pairs, adds the
\* new peers to the handle's neighbour set, and the loop tests the quota.
refresh_round(h) ==
    LET id == overlay_id[h] IN
    /\ rpc[h] = "find"
    /\ mockK = 0 => TotalRounds < RoundBudget
    /\ rounds' = [rounds EXCEPT ![h] = @ + 1]
    /\ \E ans \in DhtAnswers \cup {MockAnswer(id)} :
          LET news == update_overlay_peers(known[id], ans) IN
          /\ FindOverlayNodes(id, ans)
          /\ known' = [known EXCEPT ![id] = @ \cup Range(ans)]
          /\ Introduce(id, news)
          /\ neighbours' = [neighbours EXCEPT ![h] = PopAll(@, news)]
          /\ Give(h, news)
    /\ passed' = [passed EXCEPT ![h] = CursorForRound(h)]
    /\ iter' = [iter EXCEPT ![h] = Advance(CursorForRound(h))]
    /\ RoundEnds(h)
    /\ UNCHANGED <<overlays, inflight, pc, overlay_id, joined, ret, prevGen, snap,
                   mockK, runs, annLoops, errs, resided, nones>>
    /\ UNCHANGED <<shards, ovLoop, now, ipLoop, crawl, db, loaded>>

\* update_peers returns Err: the loop logs it and tests the quota.
RoundFails(h) ==
    /\ rpc[h] = "find"
    /\ mockK = 0 => TotalRounds < RoundBudget
    /\ rounds' = [rounds EXCEPT ![h] = @ + 1]
    /\ passed' = [passed EXCEPT ![h] = CursorForRound(h)]
    /\ UNCHANGED <<overlays, inflight, pc, overlay_id, joined, ret, prevGen, snap,
                   mockK, runs, annLoops, errs, resided, nones>>
    /\ UNCHANGED <<shards, ovLoop, now, ipLoop, crawl, db, loaded>>

\* DhtNode::find_overlay_nodes(..).await? returns Err in a round: the DHT may
\* have moved the cursor before it failed.
refresh_find_overlay_nodes_fails(h) ==
    /\ RoundFails(h)
    /\ \E cur \in {CursorForRound(h), Advance(CursorForRound(h))} :
          iter' = [iter EXCEPT ![h] = cur]
    /\ UNCHANGED <<known, served, neighbours, peerHist>>
    /\ RoundEnds(h)

\* add_public_peer(..)? returns Err on the j-th pair of a round.
refresh_add_public_peer_fails(h) ==
    LET id == overlay_id[h] IN
    /\ RoundFails(h)
    /\ iter' = [iter EXCEPT ![h] = Advance(CursorForRound(h))]
    /\ \E ans \in DhtAnswers : \E j \in 1..Len(ans) :
          /\ FindOverlayNodes(id, ans)
          /\ known' = [known EXCEPT ![id] = @ \cup Range(Prefix(ans, j - 1))]
          /\ Introduce(id, update_overlay_peers(known[id], Prefix(ans, j - 1)))
    /\ UNCHANGED <<neighbours, given, givenTwice>>
    /\ RoundEnds(h)

\* client_overlay.peers().add(peer)? returns Err on the j-th peer popped.
refresh_peers_add_fails(h) ==
    LET id == overlay_id[h] IN
    /\ RoundFails(h)
    /\ iter' = [iter EXCEPT ![h] = Advance(CursorForRound(h))]
    /\ \E ans \in DhtAnswers :
          LET news == update_overlay_peers(known[id], ans) IN
          \E j \in 1..Len(news) :
            LET popped == SubSeq(news, Len(news) - j + 2, Len(news)) IN
            /\ FindOverlayNodes(id, ans)
            /\ known' = [known EXCEPT ![id] = @ \cup Range(ans)]
            /\ Introduce(id, news)
            /\ neighbours' = [neighbours EXCEPT ![h] = PopAll(@, popped)]
            /\ Give(h, popped)
    /\ RoundEnds(h)

\* delay_for(5 s) has elapsed.
refresh_sleep(h) ==
    /\ rpc[h] = "sleep"
    /\ rpc' = [rpc EXCEPT ![h] = "find"]
    /\ UNCHANGED <<overlays, inflight, pc, overlay_id, joined, ret, prevGen, snap,
                   known, neighbours, rounds, mockK, served, hist>>
    /\ UNCHANGED <<shards, iter, passed, ovLoop, now, ipLoop, crawl, db, loaded>>

\* ---- periodic_store_ip_addr, periodic_store_overlay_node
\* A failed store call answered by calling again at once.
AfterStoreRetry(ok) == IF ok THEN "delay" ELSE "call"

\* What a self-announcement loop does after its store call returned: the
\* result is logged, then delay_for(PERIOD_STORE_IP_ADDRESS).
AfterStore(ok) == "delay"

\* The loop l after its store call returned Ok (ok) or Err.
StoreCall(l, ok) ==
    [l EXCEPT !.pos = AfterStore(ok),
              !.wake = now + PERIOD_STORE_IP_ADDRESS,
              !.calls = @ + 1,
              !.okSeen = @ \/ ok]

\* A loop's delay_for has elapsed.
Elapsed(l) == l.pos = "delay" /\ l.wake <= now

\* DhtNode::store_ip_address(&dht, &node_key).await returns.
store_ip_address(k, ok) ==
    /\ ipLoop[k].pos = "call"
    /\ ipLoop[k].calls < MaxStores
    /\ ipLoop' = [ipLoop EXCEPT ![k] = StoreCall(@, ok)]
    /\ UNCHANGED <<overlays, inflight, pc, overlay_id, joined, ret, prevGen, snap,
                   known, neighbours, rpc, rounds, mockK, served, hist,
                   shards, iter, passed, ovLoop, now, crawl, db, loaded>>

ip_delay_for(k) ==
    /\ Elapsed(ipLoop[k])
    /\ ipLoop' = [ipLoop EXCEPT ![k].pos = "call"]
    /\ UNCHANGED <<overlays, inflight, pc, overlay_id, joined, ret, prevGen, snap,
                   known, neighbours, rpc, rounds, mockK, served, hist,
                   shards, iter, passed, ovLoop, now, crawl, db, loaded>>

\* DhtNode::store_overlay_node(&dht, &overay_id, &overlay_node).await returns.
store_overlay_node(c, ok) ==
    /\ ovLoop[c].pos = "call"
    /\ ovLoop[c].calls < MaxStores
    /\ ovLoop' = [ovLoop EXCEPT ![c] = StoreCall(@, ok)]
    /\ UNCHANGED <<overlays, inflight, pc, overlay_id, joined, ret, prevGen, snap,
                   known, neighbours, rpc, rounds, mockK, served, hist,
                   shards, iter, passed, ipLoop, now, crawl, db, loaded>>

ov_delay_for(c) ==
    /\ Elapsed(ovLoop[c])
    /\ ovLoop' = [ovLoop EXCEPT ![c].pos = "call"]
    /\ UNCHANGED <<overlays, inflight, pc, overlay_id, joined, ret, prevGen, snap,
                   known, neighbours, rpc, rounds, mockK, served, hist,
                   shards, iter, passed, ipLoop, now, crawl, db, loaded>>

\* ---- find_dht_nodes: the DHT crawl loop
\* The cursor a pass starts with: let mut iter = None, inside the loop.
CrawlCursor(cr) == None

\* A failed find_dht_nodes call ending the pass.
AfterFindBreaks(cr, ok) == IF ok THEN cr.iter + 1 ELSE cr.n

\* The cursor after find_dht_nodes returned for the peer get_known_peer
\* yielded: the error is logged and the while loop goes on.
AfterFind(cr, ok) == cr.iter + 1

\* dht.get_known_peer(&mut iter) yields a peer and dht.find_dht_nodes(&id).await
\* returns.
crawl_find_dht_nodes(ok) ==
    /\ crawl.pos = "enum"
    /\ crawl.iter < crawl.n
    /\ crawl' = [crawl EXCEPT !.iter = AfterFind(crawl, ok),
                              !.calls = @ + 1,
                              !.failures = @ + (IF ok THEN 0 ELSE 1)]
    /\ UNCHANGED <<overlays, inflight, pc, overlay_id, joined, ret, prevGen, snap,
                   known, neighbours, rpc, rounds, mockK, served, hist,
                   shards, iter, passed, ovLoop, now, ipLoop, db, loaded>>

\* dht.get_known_peer(&mut iter) yields None: delay_for(PERIOD_START_FIND_DHT_NODE).
crawl_exhausted ==
    /\ crawl.pos = "enum"
    /\ crawl.iter >= crawl.n
    /\ crawl' = [crawl EXCEPT !.pos = "delay",
                              !.wake = now + PERIOD_START_FIND_DHT_NODE]
    /\ UNCHANGED <<overlays, inflight, pc, overlay_id, joined, ret, prevGen, snap,
                   known, neighbours, rpc, rounds, mockK, served, hist,
                   shards, iter, passed, ovLoop, now, ipLoop, db, loaded>>

\* The delay has elapsed: the next pass starts.
crawl_delay_for ==
    /\ Elapsed(crawl)
    /\ crawl.passes + 1 < MaxPasses
    /\ crawl' = [crawl EXCEPT !.pos = "enum",
                              !.iter = CrawlCursor(crawl),
                              !.calls = 0,
                              !.failures = 0,
                              !.passes = @ + 1]
    /\ UNCHANGED <<overlays, inflight, pc, overlay_id, joined, ret, prevGen, snap,
                   known, neighbours, rpc, rounds, mockK, served, hist,
                   shards, iter, passed, ovLoop, now, ipLoop, db, loaded>>

\* ---- the clock
\* The loops that can take a step at the present time.
Ready(l) == (l.pos = "call" /\ l.calls < MaxStores) \/ Elapsed(l)
CrawlReady == crawl.pos = "enum" \/ (Elapsed(crawl) /\ crawl.passes + 1 < MaxPasses)

\* The times at which a sleeping loop's delay ends.
Wakes ==
    {ipLoop[k].wake : k \in {j \in Keys : ipLoop[j].pos = "delay"}}
    \cup {ovLoop[c].wake : c \in {d \in Callers : ovLoop[d].pos = "delay"}}
    \cup (IF crawl.pos = "delay" THEN {crawl.wake} ELSE {})

\* Calls to the DHT take no time: the clock moves to the next time a delay
\* ends once no loop can take a step.
tick ==
    /\ \A k \in Keys : ~Ready(ipLoop[k])
    /\ \A c \in Callers : ~Ready(ovLoop[c])
    /\ ~CrawlReady
    /\ \E t \in Wakes :
          /\ t > now
          /\ \A u \in Wakes : u > now => t <= u
          /\ now' = t
    /\ UNCHANGED <<overlays, inflight, pc, overlay_id, joined, ret, prevGen, snap,
                   known, neighbours, rpc, rounds, mockK, served, hist,
                   shards, iter, passed, ovLoop, ipLoop, crawl, db, loaded>>

\* ---- get_peers_from_storage
\* AdnlNodeConfig::from_json(item, false): the config of a well-formed item.
WellFormed(item) == item # "x"
from_json(item) == IF item = "{1}" THEN 1 ELSE 2

\* Malformed stored data answered as no cached peers.
get_peers_from_storage_swallow(stored) ==
    IF stored.kind = "list" /\ \A j \in 1..Len(stored.items) : WellFormed(stored.items[j])
    THEN [tag |-> "OkSome", peers |-> [j \in 1..Len(stored.items) |-> from_json(stored.items[j])]]
    ELSE [tag |-> "OkNone", peers |-> <<>>]

\* get_peers_from_storage on what load_node_state answered.
get_peers_from_storage(stored) ==
    IF stored.kind = "load_err" THEN [tag |-> "OkNone", peers |-> <<>>]
    ELSE IF stored.kind = "not_json" THEN [tag |-> "Err", peers |-> <<>>]
    ELSE IF \E j \in 1..Len(stored.items) : ~WellFormed(stored.items[j])
    THEN [tag |-> "Err", peers |-> <<>>]
    ELSE [tag |-> "OkSome", peers |-> [j \in 1..Len(stored.items) |-> from_json(stored.items[j])]]

\* A call of get_peers_from_storage for overlay id i.
get_peers(i) ==
    /\ loaded[i] = NotCalled
    /\ loaded' = [loaded EXCEPT ![i] = get_peers_from_storage(db[i])]
    /\ UNCHANGED <<overlays, inflight, pc, overlay_id, joined, ret, prevGen, snap,
                   known, neighbours, rpc, rounds, mockK, served, hist,
                   shards, iter, passed, ovLoop, now, ipLoop, crawl, db>>

\* ---- specifications
CallerOk(c) ==
    \/ cache_lookup(c)
    \/ do_or_wait(c)
    \/ wait_result(c)
    \/ wait_none(c)
    \/ operation_done(c)

WorkerOk(c) ==
    \/ add_shard(c)
    \/ get_signed_node(c)
    \/ seed_round(c)
    \/ insert_with(c)
    \/ insert_with_cas(c)
    \/ insertion_failed(c)

WorkerFailures(c) ==
    \/ add_shard_fails(c)
    \/ get_signed_node_fails(c)
    \/ seed_find_overlay_nodes_fails(c)
    \/ seed_add_public_peer_fails(c)
    \/ neighbours_new_fails(c)

RefreshOk(h) ==
    \/ refresh_round(h)
    \/ refresh_sleep(h)

RefreshFailures(h) ==
    \/ refresh_find_overlay_nodes_fails(h)
    \/ refresh_add_public_peer_fails(h)
    \/ refresh_peers_add_fails(h)

Next ==
    \E c \in Callers :
        CallerOk(c) \/ WorkerOk(c) \/ WorkerFailures(c) \/ RefreshOk(c) \/ RefreshFailures(c)

Spec == Init /\ [][Next]_vars

\* Every awaited call of the bootstrap and of the refresh loops returns Ok, and
\* the runtime keeps scheduling every get_overlay task that can take a step.
NextOk == \E c \in Callers : CallerOk(c) \/ WorkerOk(c) \/ RefreshOk(c)

SpecFair ==
    /\ Init
    /\ [][NextOk]_vars
    /\ \A c \in Callers : WF_vars(CallerOk(c) \/ WorkerOk(c))

\* The DHT is the discovery mock: every find_overlay_nodes call answers k new,
\* distinct peers and no call fails.
InitMock ==
    /\ InitCommon
    /\ overlay_id \in {f \in [Callers -> Ids] : \A c \in Callers : c < NumCallers => f[c] = "A"}
    /\ pc = [c \in Callers |-> "lookup"]
    /\ rpc = [c \in Callers |-> "off"]
    /\ mockK \in 1..MaxK
    /\ crawl = CrawlSpawned(0)
    /\ db = [i \in Ids |-> LoadErr]

SpecMock == InitMock /\ [][NextOk]_vars

\* get_overlay_worker is started for every task at once, with no coordinator
\* between them: the candidates are built concurrently and race in
\* try_add_new_overlay.
InitWorkers ==
    /\ InitCommon
    /\ overlay_id \in {f \in [Callers -> Ids] : \A c \in Callers : c < NumCallers => f[c] = "A"}
    /\ pc = [c \in Callers |-> "add_shard"]
    /\ rpc = [c \in Callers |-> "off"]
    /\ mockK = 0
    /\ crawl = CrawlSpawned(0)
    /\ db = [i \in Ids |-> LoadErr]

NextWorkers == \E c \in Callers : WorkerOk(c)

SpecWorkers == InitWorkers /\ [][NextWorkers]_vars

\* The DHT is unreliable and everything else works: find_overlay_nodes may
\* return Err in the seed round and in any refresh round.
NextFlaky ==
    \E c \in Callers :
        \/ CallerOk(c) \/ WorkerOk(c) \/ RefreshOk(c)
        \/ seed_find_overlay_nodes_fails(c)
        \/ refresh_find_overlay_nodes_fails(c)

SpecFlaky == Init /\ [][NextFlaky]_vars

\* The background loops NodeNetwork::new spawned, and the overlay announcement
\* loops of bootstraps that have all run up to their seed round's DHT query and
\* wait for its answer.
InitLoops ==
    /\ overlays = [i \in Ids |-> NoHandle]
    /\ inflight = [i \in Ids |-> 0]
    /\ joined = [c \in Callers |-> 0]
    /\ ret = [c \in Callers |-> NoHandle]
    /\ prevGen = [c \in Callers |-> FALSE]
    /\ snap = [c \in Callers |-> [i \in Ids |-> NoHandle]]
    /\ known = [i \in Ids |-> {}]
    /\ neighbours = [c \in Callers |-> {}]
    /\ rounds = [c \in Callers |-> 0]
    /\ served = [i \in Ids |-> 0]
    /\ overlay_id \in {f \in [Callers -> Ids] : \A c \in Callers : c < NumCallers => f[c] = "A"}
    /\ runs = [i \in Ids |-> 0]
    /\ annLoops = [i \in Ids |-> Cardinality({c \in Callers : overlay_id[c] = i})]
    /\ errs = {}
    /\ intro = {} /\ introTwice = {} /\ given = {} /\ givenTwice = {}
    /\ resided = {} /\ nones = {}
    /\ shards = {overlay_id[c] : c \in Callers}
    /\ iter = [c \in Callers |-> None]
    /\ passed = [c \in Callers |-> None]
    /\ ovLoop = [c \in Callers |-> Spawned]
    /\ now = 0
    /\ ipLoop = [k \in Keys |-> Spawned]
    /\ loaded = [i \in Ids |-> NotCalled]
    /\ pc = [c \in Callers |-> "find_overlay_nodes"]
    /\ rpc = [c \in Callers |-> "off"]
    /\ mockK = 0
    /\ crawl \in {CrawlSpawned(n) : n \in 0..MaxKnown}
    /\ db = [i \in Ids |-> LoadErr]

NextLoops ==
    \/ \E k \in Keys, ok \in BOOLEAN : store_ip_address(k, ok)
    \/ \E k \in Keys : ip_delay_for(k)
    \/ \E c \in Callers, ok \in BOOLEAN : store_overlay_node(c, ok)
    \/ \E c \in Callers : ov_delay_for(c)
    \/ \E ok \in BOOLEAN : crawl_find_dht_nodes(ok)
    \/ crawl_exhausted
    \/ crawl_delay_for
    \/ tick

SpecLoops == InitLoops /\ [][NextLoops]_vars

\* get_peers_from_storage called once per overlay id on any stored data.
InitStorage ==
    /\ InitCommon
    /\ overlay_id = [c \in Callers |-> "A"]
    /\ pc = [c \in Callers |-> "lookup"]
    /\ rpc = [c \in Callers |-> "off"]
    /\ mockK = 0
    /\ crawl = CrawlSpawned(0)
    /\ db \in [Ids -> Stored]

NextStorage == \E i \in Ids : get_peers(i)

SpecStorage == InitStorage /\ [][NextStorage]_vars

\* ---- the claims
SameId(c, d) == overlay_id[c] = overlay_id[d]
CallersOf(i) == {c \in Callers : overlay_id[c] = i}
Step(c) == CallerOk(c) \/ WorkerOk(c)
CeilDiv(a, b) == (a + b - 1) \div b
Max(a, b) == IF a >= b THEN a ELSE b
Min(a, b) == IF a <= b THEN a ELSE b

\* C1: as long as no bootstrap of an overlay id has failed, get_overlay_worker
\* has been started at most once for the id, and exactly once when every call
\* for the id has returned.
C1_ExactlyOneBootstrap ==
    \A i \in Ids :
        i \notin errs =>
            /\ runs[i] <= 1
            /\ (CallersOf(i) # {} /\ \A c \in CallersOf(i) : pc[c] = "returned")
                  => runs[i] = 1

\* C2: every get_overlay call that has returned Ok returned the handle resident
\* in the cache for its id, so two such calls for one id returned the same
\* handle.
C2_SameResidentHandle ==
    /\ \A c \in Callers :
          pc[c] = "returned" =>
              /\ ret[c] # NoHandle
              /\ ret[c] = overlays[overlay_id[c]]
    /\ \A c, d \in Callers :
          (pc[c] = "returned" /\ pc[d] = "returned" /\ SameId(c, d)) => ret[c] = ret[d]

\* Two calls for one id have returned, one of them after its own worker built a
\* candidate that try_add_new_overlay discarded.
C2_Witness ==
    \E c, d \in Callers :
        /\ c # d /\ SameId(c, d)
        /\ pc[c] = "returned" /\ pc[d] = "returned"
        /\ rpc[d] # "off" /\ ret[d] = c

\* C3: of the candidates racing in try_add_new_overlay for one id at most one
\* is ever resident in the cache, every call that has returned answered the
\* resident handle, which is a candidate built for that id, and a call with no
\* rival for its id answered its own candidate.
C3_PublishRace ==
    /\ \A i \in Ids : Cardinality({h \in resided : overlay_id[h] = i}) <= 1
    /\ \A c \in Callers :
          pc[c] = "op_ok" =>
              /\ ret[c] \in resided
              /\ ret[c] = overlays[overlay_id[c]]
              /\ SameId(ret[c], c)
              /\ CallersOf(overlay_id[c]) = {c} => ret[c] = c

\* Two candidates for one id raced: the closure of d was recalled after its
\* compare-and-swap lost to c, d's candidate was discarded and both calls
\* answered c.
C3_Witness ==
    \E c, d \in Callers :
        /\ c # d /\ SameId(c, d)
        /\ pc[c] = "op_ok" /\ pc[d] = "op_ok"
        /\ prevGen[d] /\ ret[c] = c /\ ret[d] = c

\* C4: an entry of the overlay cache, once set, is never removed or replaced.
C4_PublishedIsPermanent ==
    [][\A i \in Ids : overlays[i] # NoHandle => overlays'[i] = overlays[i]]_vars

\* An id had a resident handle when a later worker for the id published: the
\* later candidate was discarded and the entry is still the earlier handle.
C4_Witness ==
    \E c \in Callers :
        /\ pc[c] = "op_ok"
        /\ rpc[c] # "off"
        /\ ret[c] # c
        /\ overlays[overlay_id[c]] = ret[c]

\* A handle exists while it is resident in the cache or its peer-refresh loop
\* still runs.
HandleExists(h) ==
    \/ overlays[overlay_id[h]] = h
    \/ rpc[h] \in {"find", "sleep"}

\* C5: at most one session handle exists per overlay id, the resident one and
\* the candidates held by running peer-refresh loops counted together.
C5_AtMostOneHandle ==
    \A i \in Ids : Cardinality({h \in CallersOf(i) : HandleExists(h)}) <= 1

\* C6: try_add_new_overlay never reaches its Insertion::Updated arm.
C6_UpdatedUnreachable == \A c \in Callers : pc[c] # "unreachable"

\* The closure ran on an entry already stored and discarded the candidate.
C6_Witness ==
    \E c \in Callers :
        /\ pc[c] = "insertion_failed"
        /\ overlays[overlay_id[c]] \notin {NoHandle, c}

\* C7: when every bootstrap step succeeds and the tasks are scheduled fairly,
\* every get_overlay call eventually returns a handle, and a call that was
\* handed None finds a resident handle when it looks the cache up again.
C7_EveryCallReturns ==
    /\ <>(\A c \in Callers : pc[c] = "returned")
    /\ [](\A c \in Callers :
            (c \in nones /\ pc[c] = "lookup") => overlays[overlay_id[c]] # NoHandle)

\* A call was handed None by do_or_wait and has returned the resident handle.
C7_Witness ==
    \E c \in nones : pc[c] = "returned" /\ ret[c] = overlays[overlay_id[c]]

\* C8: a get_overlay call ends in an error only when a bootstrap of its own id
\* failed, it waits only for an operation of its own id, and in every other
\* position it can take its next step whatever the other overlay's bootstrap
\* does.
C8_OverlaysIndependent ==
    \A c \in Callers :
        /\ pc[c] = "error" => overlay_id[c] \in errs
        /\ pc[c] = "wait" => SameId(joined[c], c)
        /\ pc[c] \notin {"returned", "error", "wait"} => ENABLED Step(c)

\* The bootstrap of "A" has failed, none of "B" has, and a call for "B" has
\* returned B's handle.
C8_Witness ==
    /\ "A" \in errs
    /\ "B" \notin errs
    /\ \E c \in CallersOf("B") : pc[c] = "returned" /\ ret[c] = overlays["B"]

\* The rounds a refresh loop makes when the seed round left s neighbours.
RoundsFrom(s) == Max(1, CeilDiv(MAX_NEIGHBOURS - s, mockK))

\* C9 as stated: under the mock a peer-refresh loop that has terminated made
\* exactly ceil(Q / k) discovery rounds.
C9_CeilRounds ==
    \A h \in Callers : rpc[h] = "done" => rounds[h] = CeilDiv(MAX_NEIGHBOURS, mockK)

\* C9 amended: under the mock the seed round leaves s = min(k, Q) neighbours,
\* and the peer-refresh loop makes exactly max(1, ceil((Q - s) / k)) discovery
\* rounds: it has made fewer while it runs and exactly that many once it has
\* terminated, for good.
C9_RoundsAfterSeed ==
    \A h \in Callers :
        LET n == RoundsFrom(Min(mockK, MAX_NEIGHBOURS)) IN
        /\ rpc[h] \in {"find", "sleep"} => rounds[h] < n
        /\ rpc[h] = "done" => rounds[h] = n

\* A refresh loop has terminated after more than one round.
C9_Witness ==
    \E h \in Callers : rpc[h] = "done" /\ rounds[h] >= 2 /\ QuotaReached(neighbours[h])

\* C10: no identity is reported as newly introduced to an overlay more than
\* once, and none is given to a handle's neighbour set more than once.
C10_DiscoveryIdempotent == introTwice = {} /\ givenTwice = {}

\* A handle's neighbour set is {2}: its discovery call was answered <<2, 1>>,
\* the only answer with 2 in it, when 1 was already known to the overlay from
\* an earlier call, and 1 was not reported again.
C10_Witness ==
    \E h \in Callers : neighbours[h] = {2} /\ <<overlay_id[h], 1>> \in intro

\* C11 as stated: with only DHT calls failing and every transport call
\* succeeding, no get_overlay call ends in an error.
C11_TransientNotPropagated == \A c \in Callers : pc[c] # "error"

\* The self-announcement loops that have been spawned.
AnnounceLoops ==
    {ipLoop[k] : k \in Keys} \cup {ovLoop[c] : c \in {d \in Callers : ovLoop[d] # NotSpawned}}

\* C12: a self-announcement loop, spawned at time 0, is always either at its
\* store call or in its delay, whatever its store calls returned: its n-th store
\* call is made at time (n - 1) * 500 and at no other time, so that it makes one
\* call per period of 500 s, none earlier after a failure, and is never over.
C12_OneStorePerPeriod ==
    \A l \in AnnounceLoops :
        /\ l.pos \in {"call", "delay"}
        /\ l.wake = PERIOD_STORE_IP_ADDRESS * l.calls
        /\ (l.pos = "call" /\ l.calls < MaxStores) => now = l.wake
        /\ l.pos = "delay" => (now <= l.wake /\ now >= l.wake - PERIOD_STORE_IP_ADDRESS)

\* A periodic_store_ip_addr loop and a periodic_store_overlay_node loop have
\* each made three store calls that all failed, and are in their delay before
\* the next one.
C12_Witness ==
    /\ \E k \in Keys :
          ipLoop[k].pos = "delay" /\ ipLoop[k].calls >= 3 /\ ~ipLoop[k].okSeen
    /\ \E c \in Callers :
          ovLoop[c].pos = "delay" /\ ovLoop[c].calls >= 3 /\ ~ovLoop[c].okSeen

\* C13: in a pass of the crawl loop over n known peers the find-nodes calls
\* made are the peers enumerated so far, failed calls included; the loop sleeps
\* only after exactly n calls, for 60 s, every pass starts from a fresh cursor
\* at a multiple of 60 s, and the loop is never over.
C13_CrawlPass ==
    /\ crawl.pos \in {"enum", "delay"}
    /\ crawl.pos = "enum" =>
          /\ crawl.calls = crawl.iter
          /\ crawl.iter <= crawl.n
          /\ now = PERIOD_START_FIND_DHT_NODE * crawl.passes
    /\ crawl.pos = "delay" =>
          /\ crawl.calls = crawl.n
          /\ crawl.wake = PERIOD_START_FIND_DHT_NODE * (crawl.passes + 1)
          /\ crawl.passes + 1 < MaxPasses => now <= crawl.wake

\* The second pass over three known peers made three calls, one of which
\* failed, and the loop sleeps again.
C13_Witness ==
    /\ crawl.pos = "delay"
    /\ crawl.passes >= 1
    /\ crawl.n = 3
    /\ crawl.calls = 3
    /\ crawl.failures >= 1

\* C14: every round of a peer-refresh loop hands the DHT the cursor the round
\* before left, whether that round failed or not, and the cursor never goes
\* back, in particular not to its initial value.
C14_CursorPreserved ==
    [][\A h \in Callers :
          /\ rounds'[h] # rounds[h] => passed'[h] = iter[h]
          /\ iter'[h] >= iter[h]
          /\ iter[h] # None => iter'[h] # None]_vars

\* A loop made a round that moved the cursor, then a round whose DHT call
\* failed: it was handed the moved cursor and left it where it was.
C14_Witness ==
    \E h \in Callers :
        /\ rounds[h] >= 2
        /\ passed[h] # None
        /\ iter[h] = passed[h]

\* C15: a get_overlay call whose lookup finds an entry returns that handle, and
\* the step changes nothing else: no operation is handed to the coordinator, no
\* worker runs, no shard is joined, no loop is spawned, no peer is registered
\* and the cache is as it was.
C15_CacheHitNoWork ==
    [][\A c \in Callers :
          (pc[c] = "lookup" /\ overlays[overlay_id[c]] # NoHandle /\ pc'[c] # pc[c]) =>
              /\ pc'[c] = "returned"
              /\ ret'[c] = overlays[overlay_id[c]]
              /\ overlays' = overlays
              /\ inflight' = inflight
              /\ runs' = runs
              /\ annLoops' = annLoops
              /\ shards' = shards
              /\ ovLoop' = ovLoop
              /\ rpc' = rpc
              /\ known' = known
              /\ neighbours' = neighbours]_vars

\* A call returned the resident handle from its first lookup: it never joined
\* an operation and its worker never ran.
C15_Witness ==
    \E c \in Callers :
        /\ pc[c] = "returned"
        /\ joined[c] = 0
        /\ rpc[c] = "off"
        /\ ret[c] = overlays[overlay_id[c]]

\* Stored bytes that are not a JSON list of well-formed peer configs.
Malformed(stored) ==
    \/ stored.kind = "not_json"
    \/ stored.kind = "list" /\ \E j \in 1..Len(stored.items) : ~WellFormed(stored.items[j])

\* C16 as stated: a failed load and malformed stored bytes both result in
\* Ok(None).
C16_BadDataIsNone ==
    \A i \in Ids :
        (loaded[i] # NotCalled /\ (db[i].kind = "load_err" \/ Malformed(db[i])))
            => loaded[i].tag = "OkNone"

\* C16 amended: a failed load results in Ok(None), malformed stored bytes
\* result in Err, and a list of well-formed configs in Ok(Some(configs)), one
\* config per item.
C16_OnlyLoadFailureIsNone ==
    \A i \in Ids :
        loaded[i] # NotCalled =>
            /\ db[i].kind = "load_err" => loaded[i].tag = "OkNone"
            /\ Malformed(db[i]) => loaded[i].tag = "Err"
            /\ (db[i].kind = "list" /\ ~Malformed(db[i])) =>
                  /\ loaded[i].tag = "OkSome"
                  /\ Len(loaded[i].peers) = Len(db[i].items)

\* get_peers_from_storage was called on a list whose first item is a peer
\* config and whose second is not, and on a failed load.
C16_Witness ==
    \E i, j \in Ids :
        /\ db[i].kind = "list" /\ Len(db[i].items) = 2
        /\ WellFormed(db[i].items[1]) /\ ~WellFormed(db[i].items[2])
        /\ loaded[i].tag = "Err"
        /\ db[j].kind = "load_err" /\ loaded[j].tag = "OkNone"

\* C17: the handle resident for an id was built for the id by a worker that
\* has joined the overlay, spawned its announcement loop, completed its seed
\* round and spawned its peer-refresh loop; and no worker that is at one of
\* these network-bound steps has claimed the cache slot.
C17_PublicationLast ==
    /\ \A i \in Ids :
          overlays[i] # NoHandle =>
              LET h == overlays[i] IN
              /\ overlay_id[h] = i
              /\ i \in shards
              /\ ovLoop[h] # NotSpawned
              /\ rpc[h] # "off"
              /\ pc[h] \in {"op_ok", "returned"}
    /\ \A c \in Callers :
          pc[c] \in {"add_shard", "get_signed_node", "find_overlay_nodes"} =>
              /\ overlays[overlay_id[c]] # c
              /\ c \notin resided

\* A handle is resident for an id while another worker for the id awaits the
\* DHT in its seed round.
C17_Witness ==
    \E c \in Callers :
        /\ pc[c] = "find_overlay_nodes"
        /\ overlays[overlay_id[c]] \notin {NoHandle, c}
        /\ rpc[overlays[overlay_id[c]]] # "off"

\* C18: a peer-refresh loop that has terminated or sleeps has made at least
\* one round; it terminated with its neighbour set at the quota and it sleeps
\* only with the set below the quota.
C18_QuotaTestedAfterRound ==
    \A h \in Callers :
        /\ rpc[h] = "done" => (rounds[h] >= 1 /\ QuotaReached(neighbours[h]))
        /\ rpc[h] = "sleep" => (rounds[h] >= 1 /\ ~QuotaReached(neighbours[h]))

\* The seed round filled the neighbour set to the quota, and the loop made
\* one round and terminated.
C18_Witness ==
    \E h \in Callers :
        /\ mockK >= MAX_NEIGHBOURS
        /\ rpc[h] = "done"
        /\ rounds[h] = 1

\* C19 as stated: at most one periodic_store_overlay_node loop is ever spawned
\* for an overlay id.
C19_OneAnnounceLoop == \A i \in Ids : annLoops[i] <= 1

\* C20 as stated, for a neighbour set with room left: every identity
\* add_public_peer has reported as new for an overlay is in the neighbour set
\* of the overlay's resident handle.
C20_NoPeerLost ==
    \A i \in Ids : \A p \in Peers :
        (/\ <<i, p>> \in intro
         /\ overlays[i] # NoHandle
         /\ ~QuotaReached(neighbours[overlays[i]]))
            => p \in neighbours[overlays[i]]

====
